---------------------------- MODULE Spec2Model ----------------------------
(***************************************************************************)
(* Model of the ritual configuration versioning store                      *)
(* (src/lib/configStore.ts) over the two tables of                         *)
(* src/prisma/migrations/20251211022410_init_rituals/migration.sql, and of *)
(* the chat turn (src/app/api/chat/route.ts) over the in-memory session    *)
(* store (src/lib/sessionStore.ts) and the configuration resolver, prompt  *)
(* builder and safety scanner (src/lib/config.ts).                         *)
(*                                                                         *)
(* Every exported function of configStore.ts is a sequence of awaited      *)
(* store calls.  Each awaited store call is one atomic step of the model;  *)
(* between two awaits of one call any step of another call may run.        *)
(***************************************************************************)
EXTENDS Integers, FiniteSets, Sequences, TLC

(***************************************************************************)
(* Bounds of the model.                                                    *)
(***************************************************************************)
MaxVersions == 2

MaxInserts == 3

\* longest text given to the safety scanner on its own
MaxText == 3

Null == "null"
NoId == 0

Procs == {"p1", "p2"}
Slugs == {"presence-shift", "other"}
Names == {"Presence Shift"}
Configs == {"cfgA", "cfgB"}
Labels == {"draft"}

\* labels given to createVersion directly; duplicateVersion passes a label
\* (given or "Copy of v<n>") through the same code
CreateLabels == {Null}


VARIABLES
    rituals,    \* table "Ritual": set of [id, slug, name]
    versions,   \* table "RitualConfigVersion": set of rows
    nextId,     \* source of fresh primary keys of RitualConfigVersion
    issued,     \* history: every <<ritualId, versionNumber>> ever inserted
    pc,         \* pc[p]: the await the call running in p is suspended at
    call        \* call[p]: arguments and locals of the call running in p

VARIABLES
    sessions,     \* the Map of sessionStore.ts: sessionId -> session object
    heap,         \* the session objects: object -> SessionState
    cachedConfig, \* cachedConfig of config.ts
    configLoad,   \* the background load started by getPresenceConfig
    env,          \* OPENAI_API_KEY is set, NODE_ENV is "production"
    turn,         \* turn[t]: request, locals and position of a running POST
    everDone,     \* history: sessions whose stored currentStep was DONE
    scan,         \* a call of checkForSafetyFlags on its own: input and result
    built,        \* calls of buildPromptForStep on their own: inputs and results
    admin         \* ADMIN_SECRET and the running POSTs of /api/admin/config

storeVars == <<rituals, versions, nextId, issued, pc, call>>

chatVars ==
    <<sessions, heap, cachedConfig, configLoad, env, turn, everDone, scan,
      built, admin>>

vars == <<storeVars, chatVars>>

(***************************************************************************)
(* Queries on the two tables.                                              *)
(***************************************************************************)
RitualBySlug(slug) == {r \in rituals : r.slug = slug}

RitualById(id) == {r \in rituals : r.id = id}

VersionsOf(rid) == {v \in versions : v.ritualId = rid}

ActiveOf(rid) == {v \in VersionsOf(rid) : v.isActive}

Numbers(rid) == {v.versionNumber : v \in VersionsOf(rid)}

MaxOf(S) == CHOOSE m \in S : \A n \in S : n <= m

\* prisma.ritualConfigVersion.findUnique({ where: { id } }): the rows found
FindUniqueLoose(id) ==
    IF \E v \in versions : v.id = id
    THEN {v \in versions : v.id = id}
    ELSE IF versions = {} THEN {}
         ELSE {CHOOSE v \in versions : \A w \in versions : v.id <= w.id}

FindUnique(id) == {v \in versions : v.id = id}

\* aggregate _max versionNumber, ?? 0, + 1
NextVersionNumberGap(rid) ==
    IF Numbers(rid) = {} THEN 1 ELSE MaxOf(Numbers(rid)) + 2

NextVersionNumber(rid) ==
    (IF Numbers(rid) = {} THEN 0 ELSE MaxOf(Numbers(rid))) + 1

\* updateMany({ where: { ritualId, isActive: true }, data: { isActive: false } })
DeactivateActiveDrop(rid) ==
    {v \in versions : ~(v.ritualId = rid /\ v.isActive)}

DeactivateActiveAll(rid) ==
    {[v EXCEPT !.isActive = FALSE] : v \in versions}

DeactivateActive(rid) ==
    {IF v.ritualId = rid /\ v.isActive THEN [v EXCEPT !.isActive = FALSE] ELSE v
        : v \in versions}

\* updateMany({ where: { ritualId, id: { not: id } }, data: { isActive: false } })
DeactivateOthersNone(rid, id) == versions

DeactivateOthers(rid, id) ==
    {IF v.ritualId = rid /\ v.id # id THEN [v EXCEPT !.isActive = FALSE] ELSE v
        : v \in versions}

\* update({ where: { id }, data: { isActive: true } }) applied to the rows vs
SetActive(vs, id) ==
    {IF v.id = id THEN [v EXCEPT !.isActive = TRUE] ELSE v : v \in vs}

\* findMany({ ..., orderBy: { versionNumber: "desc" } }): the rows vs in order
RECURSIVE OrderByVersionAsc(_)
OrderByVersionAsc(vs) ==
    IF vs = {} THEN <<>>
    ELSE LET first == CHOOSE v \in vs :
                        \A w \in vs : v.versionNumber <= w.versionNumber
         IN <<first>> \o OrderByVersionAsc(vs \ {first})

RECURSIVE OrderByVersionDesc(_)
OrderByVersionDesc(vs) ==
    IF vs = {} THEN <<>>
    ELSE LET first == CHOOSE v \in vs :
                        \A w \in vs : w.versionNumber <= v.versionNumber
         IN <<first>> \o OrderByVersionDesc(vs \ {first})

\* the unique index ("ritualId", "versionNumber")
UniqueViolation(rid, n) ==
    \E v \in versions : v.ritualId = rid /\ v.versionNumber = n

\* `Copy of v${source.versionNumber}`
DefaultCopyLabelOff(n) == "Copy of v" \o ToString(n + 1)

DefaultCopyLabel(n) == "Copy of v" \o ToString(n)

\* label ?? `Copy of v${source.versionNumber}`
CopyLabel(label, n) == IF label = Null THEN DefaultCopyLabel(n) ELSE label

(***************************************************************************)
(* The chat turn (src/app/api/chat/route.ts), the session store            *)
(* (src/lib/sessionStore.ts), and the configuration resolver, prompt       *)
(* builder and safety scanner (src/lib/config.ts).                         *)
(*                                                                         *)
(* A text is a sequence of characters.  A fixed message of the code is a   *)
(* one-element text holding the whole message.                             *)
(***************************************************************************)
Undefined == <<"<undefined>">>

Falsy(x) == x = Undefined \/ x = <<>>

ANSWER == <<"A", "N", "S", "W", "E", "R">>
INTEND == <<"I", "N", "T", "E", "N", "D">>
FOCUS == <<"F", "O", "C", "U", "S">>
FLOW == <<"F", "L", "O", "W">>
BEGIN == <<"B", "E", "G", "I", "N">>
DONE == <<"D", "O", "N", "E">>

\* validSteps
ValidStepsNoDone == {ANSWER, INTEND, FOCUS, FLOW, BEGIN}

Unknown == <<"d", "o", "n", "e">>

ValidStepsWide == ValidStepsNoDone \cup {DONE, Unknown}

ValidSteps == {ANSWER, INTEND, FOCUS, FLOW, BEGIN, DONE}

ApologyMessage ==
    <<"Something went wrong on my side, so I'll pause this Presence Shift here. You can refresh the page to begin again later if you'd like.">>

PauseMessage ==
    <<"I'll pause here for now. You can refresh the page to begin a new Presence Shift when you're ready.">>

CrisisFallbackMessage ==
    <<"It sounds like you might be going through something very intense. I'm not able to help with crises or safety concerns. If you're in immediate danger, please contact your local emergency number or a crisis line right away.">>

\* String.prototype.toLowerCase, on the letters the model uses
LowerChar(c) ==
    CASE c = "A" -> "a" [] c = "D" -> "d" [] c = "E" -> "e" [] c = "H" -> "h"
      [] c = "I" -> "i" [] c = "K" -> "k" [] c = "N" -> "n" [] c = "O" -> "o"
      [] c = "S" -> "s" [] c = "X" -> "x" [] OTHER -> c

ToLowerCase(s) == [i \in 1..Len(s) |-> LowerChar(s[i])]

\* String.prototype.includes
Includes(hay, needle) ==
    \E i \in 0..(Len(hay) - Len(needle)) :
        SubSeq(hay, i + 1, i + Len(needle)) = needle

IsSpace(c) == c \in {" ", "\n", "\t"}

\* String.prototype.trim
RECURSIVE TrimStart(_)
TrimStart(s) ==
    IF s # <<>> /\ IsSpace(Head(s)) THEN TrimStart(Tail(s)) ELSE s

RECURSIVE TrimEnd(_)
TrimEnd(s) ==
    IF s # <<>> /\ IsSpace(s[Len(s)])
    THEN TrimEnd(SubSeq(s, 1, Len(s) - 1)) ELSE s

Trim(s) == TrimEnd(TrimStart(s))

\* textContent.substring(0, 500)
SubstringLimit == 500

Substring0(s, n) == IF Len(s) <= n THEN s ELSE SubSeq(s, 1, n)

JoinPartsPlain(a, b) == a \o <<"\n", "\n">> \o b

\* [crisisTemplate, disclaimer].filter(Boolean).join("\n\n")
JoinParts(a, b) ==
    IF a = <<>> THEN b
    ELSE IF b = <<>> THEN a
    ELSE a \o <<"\n", "\n">> \o b

(***************************************************************************)
(* Configurations.  "default" is the bundled presenceShift.json; the other *)
(* names are configJson payloads of the store.  hasKeywords = FALSE is a   *)
(* configuration without safety.keywords.                                  *)
(***************************************************************************)
DefaultConfig == "default"

ConfigData(c) ==
    CASE c = "default" ->
            [hasKeywords |-> TRUE,
             keywords |-> << <<"S", "o", "s">> >>,
             crisisTemplate |-> <<" ", "C", " ">>,
             disclaimer |-> <<"D", "\n">>,
             steps |-> ValidStepsNoDone]
      [] c = "cfgA" ->
            [hasKeywords |-> TRUE,
             keywords |-> << <<"n", "o">>, <<>>, <<"X">> >>,
             crisisTemplate |-> <<" ">>,
             disclaimer |-> <<>>,
             steps |-> ValidStepsNoDone \ {FLOW}]
      [] c = "cfgC" ->
            [hasKeywords |-> TRUE,
             keywords |-> << <<"O", "n">>, <<"x">> >>,
             crisisTemplate |-> <<>>,
             disclaimer |-> <<" ", "D", " ">>,
             steps |-> ValidStepsNoDone]
      [] c = "cfgD" ->
            [hasKeywords |-> TRUE,
             keywords |-> <<>>,
             crisisTemplate |-> <<"C">>,
             disclaimer |-> <<"D">>,
             steps |-> ValidStepsNoDone]
      [] c = "cfgE" ->
            [hasKeywords |-> TRUE,
             keywords |-> << <<"N">> >>,
             crisisTemplate |-> <<"\t", "C">>,
             disclaimer |-> <<" ">>,
             steps |-> ValidStepsNoDone]
      [] OTHER ->
            [hasKeywords |-> FALSE,
             keywords |-> <<>>,
             crisisTemplate |-> <<"C">>,
             disclaimer |-> <<>>,
             steps |-> ValidStepsNoDone]

\* process.env.DEFAULT_RITUAL_SLUG || "ps1_foundation"
DefaultRitualSlug == "presence-shift"

(***************************************************************************)
(* Output of the generation oracle and JSON.parse.                         *)
(***************************************************************************)
Absent == [t |-> "absent", v |-> <<>>]

JNumber == [t |-> "number", v |-> <<"5">>]

JString(s) == [t |-> "string", v |-> s]

NoNotes == [t |-> "absent", v |-> {}]

Hi == JString(<<" ", "h", "i", " ">>)

NotesA == [t |-> "object", v |-> {<<"answer", <<"n">>>>}]

NotesAI ==
    [t |-> "object", v |-> {<<"answer", <<"m">>>>, <<"intend", <<"n">>>>}]

NotesString == [t |-> "string", v |-> {}]

OracleMessages ==
    {Absent, JNumber, JString(<<>>), JString(<<" ">>), Hi}

OracleNextSteps ==
    {Absent, JNumber, JString(<<>>), JString(Unknown)}
        \cup {JString(s) : s \in ValidSteps}

Obj(m, n, u) == [assistantMessage |-> m, nextStep |-> n, notesUpdate |-> u]

\* the objects the oracle's JSON output denotes
OracleObjects ==
    {Obj(Hi, n, NoNotes) : n \in OracleNextSteps}
        \cup {Obj(m, JString(INTEND), NoNotes) : m \in OracleMessages}
        \cup {Obj(JString(<<" ">>), JString(Unknown), NoNotes),
              Obj(Hi, JString(FOCUS), NotesA),
              Obj(Hi, JString(Unknown), NotesAI),
              Obj(Hi, JString(BEGIN), NotesString),
              Obj(Absent, Absent, NoNotes)}

Quoted(s) == <<"\"">> \o s \o <<"\"">>

JsonValue(x) == IF x.t = "string" THEN Quoted(x.v) ELSE x.v

JsonNotes(n) ==
    IF n.t = "string" THEN Quoted(<<"x">>)
    ELSE IF n = NotesA
         THEN <<"{">> \o Quoted(<<"answer">>) \o <<":">> \o Quoted(<<"n">>)
                \o <<"}">>
         ELSE <<"{">> \o Quoted(<<"answer">>) \o <<":">> \o Quoted(<<"m">>)
                \o <<",">> \o Quoted(<<"intend">>) \o <<":">>
                \o Quoted(<<"n">>) \o <<"}">>

RECURSIVE JoinComma(_)
JoinComma(fields) ==
    IF fields = <<>> THEN <<>>
    ELSE IF Len(fields) = 1 THEN fields[1]
    ELSE fields[1] \o <<",">> \o JoinComma(Tail(fields))

\* the JSON text of an object
JsonText(o) ==
    LET f1 == IF o.assistantMessage.t = "absent" THEN <<>>
              ELSE << Quoted(<<"assistantMessage">>) \o <<":">>
                        \o JsonValue(o.assistantMessage) >>
        f2 == IF o.nextStep.t = "absent" THEN <<>>
              ELSE << Quoted(<<"nextStep">>) \o <<":">>
                        \o JsonValue(o.nextStep) >>
        f3 == IF o.notesUpdate.t = "absent" THEN <<>>
              ELSE << Quoted(<<"notesUpdate">>) \o <<":">>
                        \o JsonNotes(o.notesUpdate) >>
    IN <<"{">> \o JoinComma(f1 \o f2 \o f3) \o <<"}">>

TextNull == <<"n", "u", "l", "l">>

TextProse == <<" ", "O", "k", ".", "\n">>

TextBlank == <<" ", "\n">>

TextLong == [i \in 1..(SubstringLimit + 1) |-> "y"]

\* message.content values that are not the text of an object
OtherTexts == {<<>>, TextNull, TextProse, TextBlank, TextLong}

OracleTexts == {JsonText(o) : o \in OracleObjects} \cup OtherTexts

\* JSON.parse on the texts of the model: the object, null, or a SyntaxError
JSONParseTable ==
    [text \in OracleTexts |->
        IF \E o \in OracleObjects : JsonText(o) = text
        THEN [kind |-> "object",
              value |-> CHOOSE o \in OracleObjects : JsonText(o) = text]
        ELSE IF text = TextNull
             THEN [kind |-> "null",
                   value |-> [assistantMessage |-> Absent, nextStep |-> Absent,
                              notesUpdate |-> NoNotes]]
             ELSE [kind |-> "SyntaxError",
                   value |-> [assistantMessage |-> Absent, nextStep |-> Absent,
                              notesUpdate |-> NoNotes]]]

JSONParse(text) == JSONParseTable[text]

(***************************************************************************)
(* Requests, session objects and turns.                                    *)
(***************************************************************************)
Turns == {"t1", "t2"}

SessionIds == {"s1"}

\* sessionId of a request body; "" is a missing sessionId
SessionIdInputs == SessionIds \cup {""}

\* userMessage of a request body; <<>> is a missing userMessage
UserMessages == {<<>>, <<"o", "k">>, <<"S", "O", "S">>, <<"x">>}

\* nextActivity of a request body
NextActivities == {Undefined, <<"g">>, <<"n">>}

\* a session object is named by the turn that allocated it and its sessionId
NoObj == <<"none", "">>

NewSessionIntend(sid) ==
    [sessionId |-> sid, currentStep |-> INTEND, userFeelingRaw |-> Undefined,
     nextActivityRaw |-> Undefined, notes |-> {}]

NewSession(sid) ==
    [sessionId |-> sid, currentStep |-> ANSWER, userFeelingRaw |-> Undefined,
     nextActivityRaw |-> Undefined, notes |-> {}]

NoPrompt ==
    [kind |-> "none", config |-> Null, step |-> <<>>, feeling |-> <<>>,
     nextActivity |-> <<>>, userMessage |-> <<>>]

NoReply == [kind |-> "none", content |-> <<>>]

NoResponse ==
    [status |-> 0, error |-> Null, assistantMessage |-> Undefined,
     currentStep |-> Undefined, done |-> FALSE]

ErrorResponse(status, error) ==
    [NoResponse EXCEPT !.status = status, !.error = error]

NoTurn ==
    [pc |-> "idle", sessionId |-> "", userMessage |-> <<>>, nextActivity |-> Undefined,
     session |-> NoObj, stepAtLoad |-> <<>>, config |-> Null,
     flagged |-> FALSE, prompt |-> NoPrompt, reply |-> NoReply,
     assistantMessage |-> <<>>, nextStep |-> <<>>, done |-> FALSE,
     response |-> NoResponse]

EmptyMap == [k \in {} |-> NoObj]

NoScan ==
    [called |-> FALSE, text |-> <<>>, config |-> Null, flagged |-> FALSE,
     responseText |-> Undefined]

\* no body read yet
NoBody == [json |-> "none", keys |-> {}, config |-> Null]

\* a POST of /api/admin/config: position, body, response
NoRequest ==
    [pc |-> "idle", body |-> NoBody, status |-> 0, versionId |-> NoId]

\* ADMIN_SECRET is set, nobody is posting
NoAdmin == [secretSet |-> TRUE, req |-> [p \in Procs |-> NoRequest]]

\* no session, no turn, nothing cached
ChatQuiet ==
    /\ sessions = EmptyMap
    /\ heap = EmptyMap
    /\ cachedConfig = Null
    /\ configLoad = "idle"
    /\ turn = [t \in Turns |-> NoTurn]
    /\ everDone = {}
    /\ scan = NoScan
    /\ built = <<>>

ChatIdle == ChatQuiet /\ admin = NoAdmin


(***************************************************************************)
(* Calls.                                                                  *)
(***************************************************************************)
NoCall ==
    [op |-> "none", ritualSlug |-> Null, ritualName |-> Null, config |-> Null,
     label |-> Null, dupLabel |-> Null, makeActive |-> FALSE,
     versionId |-> NoId,
     ritualId |-> NoId, nextVersionNumber |-> 0, srcNumber |-> 0,
     flipped |-> {}, error |-> Null, out |-> {}, listed |-> <<>>]

Idle(p) == pc[p] = "idle"

\* serial: the caller issues one call at a time
Admit(p, serial) == Idle(p) /\ (serial => \A q \in Procs : Idle(q))

\* rows about to be inserted by a running call
Pending == Cardinality({q \in Procs : call[q].op \in {"create", "duplicate"}})

\* the bound on the rows of the store and on the rows ever inserted
Room ==
    /\ Cardinality(versions) + Pending < MaxVersions
    /\ (nextId - 1) + Pending < MaxInserts

Init ==
    /\ rituals = {}
    /\ versions = {}
    /\ nextId = 1
    /\ issued = {}
    /\ pc = [p \in Procs |-> "idle"]
    /\ call = [p \in Procs |-> NoCall]
    /\ env = [apiKey |-> TRUE, production |-> FALSE]
    /\ ChatIdle

--------------------------------------------------------------------------
(* createRitualConfigVersion *)

StartCreate(p, serial, flags) ==
    /\ Admit(p, serial)
    /\ Room
    /\ \E slug \in Slugs, name \in Names, config \in Configs,
          label \in CreateLabels, makeActive \in flags :
            call' = [call EXCEPT ![p] =
                        [NoCall EXCEPT !.op = "create", !.ritualSlug = slug,
                                       !.ritualName = name, !.config = config,
                                       !.label = label,
                                       !.makeActive = makeActive]]
    /\ pc' = [pc EXCEPT ![p] = "cv_ensure"]
    /\ UNCHANGED <<rituals, versions, nextId, issued>>
    /\ UNCHANGED chatVars

\* ensureRitual: upsert by slug
CvEnsure(p) ==
    /\ pc[p] = "cv_ensure"
    /\ LET slug == call[p].ritualSlug
           name == call[p].ritualName
           found == RitualBySlug(slug)
           id == IF found = {} THEN Cardinality(rituals) + 1
                 ELSE (CHOOSE r \in found : TRUE).id
       IN /\ rituals' = {r \in rituals : r.slug # slug}
                            \cup {[id |-> id, slug |-> slug, name |-> name]}
          /\ call' = [call EXCEPT ![p].ritualId = id]
    /\ pc' = [pc EXCEPT ![p] = "cv_max"]
    /\ UNCHANGED <<versions, nextId, issued>>
    /\ UNCHANGED chatVars

\* aggregate _max, nextVersionNumber
CvMax(p) ==
    /\ pc[p] = "cv_max"
    /\ call' = [call EXCEPT ![p].nextVersionNumber =
                    NextVersionNumber(call[p].ritualId)]
    /\ pc' = [pc EXCEPT ![p] =
                 IF call[p].makeActive THEN "cv_deactivate" ELSE "cv_create"]
    /\ UNCHANGED <<rituals, versions, nextId, issued>>
    /\ UNCHANGED chatVars

\* if (makeActive) updateMany(... isActive: false)
CvDeactivate(p) ==
    /\ pc[p] = "cv_deactivate"
    /\ versions' = DeactivateActive(call[p].ritualId)
    /\ call' = [call EXCEPT ![p].flipped =
                    {v.id : v \in ActiveOf(call[p].ritualId)}]
    /\ pc' = [pc EXCEPT ![p] = "cv_create"]
    /\ UNCHANGED <<rituals, nextId, issued>>
    /\ UNCHANGED chatVars

\* prisma.ritualConfigVersion.create: rejected by the unique index, or inserted
CvCreate(p) ==
    /\ pc[p] = "cv_create"
    /\ LET c == call[p]
           row == [id |-> nextId, ritualId |-> c.ritualId,
                   versionNumber |-> c.nextVersionNumber,
                   isActive |-> c.makeActive, label |-> c.label,
                   configJson |-> c.config]
       IN IF UniqueViolation(c.ritualId, c.nextVersionNumber)
          THEN /\ call' = [call EXCEPT ![p].error = "UniqueViolation"]
               /\ pc' = [pc EXCEPT ![p] = "threw"]
               /\ UNCHANGED <<versions, nextId, issued>>
          ELSE /\ versions' = versions \cup {row}
               /\ nextId' = nextId + 1
               /\ issued' = issued \cup {<<c.ritualId, c.nextVersionNumber>>}
               /\ call' = [call EXCEPT ![p].out = {row}]
               /\ pc' = [pc EXCEPT ![p] = "returned"]
    /\ UNCHANGED rituals
    /\ UNCHANGED chatVars

--------------------------------------------------------------------------
(* activateRitualConfigVersion *)

StartActivate(p, serial) ==
    /\ Admit(p, serial)
    /\ \E id \in 1..nextId :
            call' = [call EXCEPT ![p] =
                        [NoCall EXCEPT !.op = "activate", !.versionId = id]]
    /\ pc' = [pc EXCEPT ![p] = "av_find"]
    /\ UNCHANGED <<rituals, versions, nextId, issued>>
    /\ UNCHANGED chatVars

\* findUnique; if (!version) throw
AvFind(p) ==
    /\ pc[p] = "av_find"
    /\ LET found == FindUnique(call[p].versionId)
       IN IF found = {}
          THEN /\ call' = [call EXCEPT ![p].error = "NotFound"]
               /\ pc' = [pc EXCEPT ![p] = "threw"]
          ELSE LET version == CHOOSE v \in found : TRUE
               IN /\ call' = [call EXCEPT ![p].ritualId = version.ritualId,
                                          ![p].versionId = version.id]
                  /\ pc' = [pc EXCEPT ![p] = "av_deactivate"]
    /\ UNCHANGED <<rituals, versions, nextId, issued>>
    /\ UNCHANGED chatVars

\* mark all other versions of the ritual inactive
AvDeactivate(p) ==
    /\ pc[p] = "av_deactivate"
    /\ versions' = DeactivateOthers(call[p].ritualId, call[p].versionId)
    /\ pc' = [pc EXCEPT ![p] = "av_update"]
    /\ UNCHANGED <<rituals, nextId, issued, call>>
    /\ UNCHANGED chatVars

\* mark this version active; update throws when the row is gone
AvUpdate(p) ==
    /\ pc[p] = "av_update"
    /\ IF FindUnique(call[p].versionId) = {}
       THEN /\ call' = [call EXCEPT ![p].error = "RecordNotFound"]
            /\ pc' = [pc EXCEPT ![p] = "threw"]
            /\ UNCHANGED versions
       ELSE /\ versions' = SetActive(versions, call[p].versionId)
            /\ call' = [call EXCEPT ![p].out =
                           SetActive(FindUnique(call[p].versionId),
                                     call[p].versionId)]
            /\ pc' = [pc EXCEPT ![p] = "returned"]
    /\ UNCHANGED <<rituals, nextId, issued>>
    /\ UNCHANGED chatVars

--------------------------------------------------------------------------
(* duplicateRitualConfigVersion *)

StartDuplicate(p, serial, flags) ==
    /\ Admit(p, serial)
    /\ Room
    /\ \E id \in 1..nextId, label \in Labels \cup {Null}, makeActive \in flags :
            call' = [call EXCEPT ![p] =
                        [NoCall EXCEPT !.op = "duplicate", !.versionId = id,
                                       !.dupLabel = label,
                                       !.makeActive = makeActive]]
    /\ pc' = [pc EXCEPT ![p] = "dv_source"]
    /\ UNCHANGED <<rituals, versions, nextId, issued>>
    /\ UNCHANGED chatVars

\* findUnique source; if (!source) throw
DvSource(p) ==
    /\ pc[p] = "dv_source"
    /\ LET found == FindUnique(call[p].versionId)
       IN IF found = {}
          THEN /\ call' = [call EXCEPT ![p].error = "NotFound"]
               /\ pc' = [pc EXCEPT ![p] = "threw"]
          ELSE LET source == CHOOSE v \in found : TRUE
               IN /\ call' = [call EXCEPT ![p].ritualId = source.ritualId,
                                          ![p].config = source.configJson,
                                          ![p].srcNumber = source.versionNumber]
                  /\ pc' = [pc EXCEPT ![p] = "dv_ritual"]
    /\ UNCHANGED <<rituals, versions, nextId, issued>>
    /\ UNCHANGED chatVars

\* findUnique ritual; if (!ritual) throw; then the arguments of createRitualConfigVersion
DvRitual(p) ==
    /\ pc[p] = "dv_ritual"
    /\ LET found == RitualById(call[p].ritualId)
       IN IF found = {}
          THEN /\ call' = [call EXCEPT ![p].error = "NotFound"]
               /\ pc' = [pc EXCEPT ![p] = "threw"]
          ELSE LET ritual == CHOOSE r \in found : TRUE
               IN /\ call' = [call EXCEPT
                                ![p].ritualSlug = ritual.slug,
                                ![p].ritualName = ritual.name,
                                ![p].label = CopyLabel(call[p].dupLabel,
                                                       call[p].srcNumber)]
                  /\ pc' = [pc EXCEPT ![p] = "cv_ensure"]
    /\ UNCHANGED <<rituals, versions, nextId, issued>>
    /\ UNCHANGED chatVars

--------------------------------------------------------------------------
(* getActiveRitualConfig *)

StartGetActive(p, serial) ==
    /\ Admit(p, serial)
    /\ \E slug \in Slugs :
            call' = [call EXCEPT ![p] =
                        [NoCall EXCEPT !.op = "getActive", !.ritualSlug = slug]]
    /\ pc' = [pc EXCEPT ![p] = "ga_ritual"]
    /\ UNCHANGED <<rituals, versions, nextId, issued>>
    /\ UNCHANGED chatVars

GaRitual(p) ==
    /\ pc[p] = "ga_ritual"
    /\ LET found == RitualBySlug(call[p].ritualSlug)
       IN IF found = {}
          THEN /\ call' = [call EXCEPT ![p].error = "NotFound"]
               /\ pc' = [pc EXCEPT ![p] = "threw"]
          ELSE /\ call' = [call EXCEPT ![p].ritualId =
                              (CHOOSE r \in found : TRUE).id]
               /\ pc' = [pc EXCEPT ![p] = "ga_version"]
    /\ UNCHANGED <<rituals, versions, nextId, issued>>
    /\ UNCHANGED chatVars

\* findFirst({ where: { ritualId, isActive: true }, orderBy: versionNumber desc })
GaVersion(p) ==
    /\ pc[p] = "ga_version"
    /\ LET active == ActiveOf(call[p].ritualId)
       IN IF active = {}
          THEN /\ call' = [call EXCEPT ![p].error = "NoActiveVersion"]
               /\ pc' = [pc EXCEPT ![p] = "threw"]
          ELSE /\ call' = [call EXCEPT ![p].out =
                              {CHOOSE v \in active :
                                  \A w \in active :
                                      w.versionNumber <= v.versionNumber}]
               /\ pc' = [pc EXCEPT ![p] = "returned"]
    /\ UNCHANGED <<rituals, versions, nextId, issued>>
    /\ UNCHANGED chatVars

--------------------------------------------------------------------------
(* getRitualVersions *)

StartList(p, serial) ==
    /\ Admit(p, serial)
    /\ \E slug \in Slugs :
            call' = [call EXCEPT ![p] =
                        [NoCall EXCEPT !.op = "list", !.ritualSlug = slug]]
    /\ pc' = [pc EXCEPT ![p] = "lv_ritual"]
    /\ UNCHANGED <<rituals, versions, nextId, issued>>
    /\ UNCHANGED chatVars

LvRitual(p) ==
    /\ pc[p] = "lv_ritual"
    /\ LET found == RitualBySlug(call[p].ritualSlug)
       IN IF found = {}
          THEN pc' = [pc EXCEPT ![p] = "returned"] /\ UNCHANGED call
          ELSE /\ call' = [call EXCEPT ![p].ritualId =
                              (CHOOSE r \in found : TRUE).id]
               /\ pc' = [pc EXCEPT ![p] = "lv_versions"]
    /\ UNCHANGED <<rituals, versions, nextId, issued>>
    /\ UNCHANGED chatVars

LvVersions(p) ==
    /\ pc[p] = "lv_versions"
    /\ call' = [call EXCEPT ![p].out = VersionsOf(call[p].ritualId),
                            ![p].listed =
                                OrderByVersionDesc(VersionsOf(call[p].ritualId))]
    /\ pc' = [pc EXCEPT ![p] = "returned"]
    /\ UNCHANGED <<rituals, versions, nextId, issued>>
    /\ UNCHANGED chatVars

--------------------------------------------------------------------------
\* the caller receives the result or the error; the slot is free again
Return(p) ==
    /\ pc[p] \in {"returned", "threw"}
    /\ pc' = [pc EXCEPT ![p] = "idle"]
    /\ call' = [call EXCEPT ![p] = NoCall]
    /\ UNCHANGED <<rituals, versions, nextId, issued>>
    /\ UNCHANGED chatVars

\* a row of RitualConfigVersion removed from the store from outside the
\* repository, while no call is running
DeleteVersion ==
    /\ \A q \in Procs : Idle(q)
    /\ \E v \in versions : versions' = versions \ {v}
    /\ UNCHANGED <<rituals, nextId, issued, pc, call>>
    /\ UNCHANGED chatVars

Step(p, serial, flags) ==
    \/ StartCreate(p, serial, flags)
    \/ CvEnsure(p)
    \/ CvMax(p)
    \/ CvDeactivate(p)
    \/ CvCreate(p)
    \/ StartActivate(p, serial)
    \/ AvFind(p)
    \/ AvDeactivate(p)
    \/ AvUpdate(p)
    \/ StartDuplicate(p, serial, flags)
    \/ DvSource(p)
    \/ DvRitual(p)
    \/ StartGetActive(p, serial)
    \/ GaRitual(p)
    \/ GaVersion(p)
    \/ StartList(p, serial)
    \/ LvRitual(p)
    \/ LvVersions(p)
    \/ Return(p)

\* concurrent calls, any arguments
Next == \E p \in Procs : Step(p, FALSE, BOOLEAN)

\* concurrent calls, every creation with makeActive = true
NextActive == \E p \in Procs : Step(p, FALSE, {TRUE})

\* one call at a time
NextSeq == \E p \in Procs : Step(p, TRUE, BOOLEAN)

\* one call at a time, rows deleted from the store between calls
NextDel == NextSeq \/ DeleteVersion

Spec == Init /\ [][Next]_vars

SpecActive == Init /\ [][NextActive]_vars

SpecSeq == Init /\ [][NextSeq]_vars

SpecDel == Init /\ [][NextDel]_vars

--------------------------------------------------------------------------
(***************************************************************************)
(* src/lib/config.ts                                                       *)
(***************************************************************************)

\* getPresenceConfig: the value returned, the cache and the state of the
\* background load after the call
GetPresenceConfig(cache, load, production) ==
    IF cache # Null
    THEN [value |-> cache, cache |-> cache, load |-> load]
    ELSE [value |-> DefaultConfig, cache |-> DefaultConfig,
          load |-> IF production THEN "pending" ELSE load]

\* keywords.find((kw) => lowered.includes(kw.toLowerCase())): the matches,
\* in the order of the list
RECURSIVE Matches(_, _)
Matches(keywords, lowered) ==
    IF keywords = <<>> THEN <<>>
    ELSE (IF Includes(lowered, ToLowerCase(Head(keywords)))
          THEN <<Head(keywords)>> ELSE <<>>)
            \o Matches(Tail(keywords), lowered)

\* config.safety?.keywords ?? []
KeywordsOf(c) ==
    IF ConfigData(c).hasKeywords THEN ConfigData(c).keywords ELSE <<>>

\* checkForSafetyFlags under configuration c
CheckForSafetyFlags(text, c) ==
    LET found == Matches(KeywordsOf(c), ToLowerCase(text))
        matchedKeyword == IF found = <<>> THEN Undefined ELSE Head(found)
        response == JoinParts(Trim(ConfigData(c).crisisTemplate),
                              Trim(ConfigData(c).disclaimer))
    IN IF ~Falsy(matchedKeyword)
       THEN [flagged |-> TRUE,
             responseText |-> IF Falsy(response) THEN CrisisFallbackMessage
                              ELSE response]
       ELSE [flagged |-> FALSE, responseText |-> Undefined]

BuildPromptAlways(step, session, userMessage, c) ==
    [kind |-> "instruction", config |-> c, step |-> step,
     feeling |-> session.userFeelingRaw,
     nextActivity |-> session.nextActivityRaw,
     userMessage |-> userMessage]

\* buildPromptForStep under configuration c: the parts the returned string
\* is composed of
BuildPromptForStep(step, session, userMessage, c) ==
    IF step = DONE
    THEN [NoPrompt EXCEPT !.kind = "doneNotice"]
    ELSE IF step \notin ConfigData(c).steps
    THEN [NoPrompt EXCEPT !.kind = "unknownStep", !.step = step]
    ELSE [kind |-> "instruction", config |-> c, step |-> step,
          feeling |-> session.userFeelingRaw,
          nextActivity |-> session.nextActivityRaw,
          userMessage |-> userMessage]

--------------------------------------------------------------------------
(***************************************************************************)
(* src/app/api/chat/route.ts: the outcome of the call of the oracle        *)
(***************************************************************************)
OracleReplies ==
    {[kind |-> "throw", content |-> <<>>],
     [kind |-> "noContent", content |-> <<>>]}
        \cup {[kind |-> "content", content |-> text] : text \in OracleTexts}

\* the catch of the parse: the raw text, cut, closes the session
SalvageUncut(textContent) ==
    [assistantMessage |-> textContent, nextStep |-> DONE,
     notesUpdate |-> NoNotes]

Salvage(textContent) ==
    [assistantMessage |-> Substring0(textContent, SubstringLimit),
     nextStep |-> DONE, notesUpdate |-> NoNotes]

IsNonEmptyString(x) == x.t = "string" /\ x.v # <<>>

ParseReplyStay(textContent, currentStep) ==
    LET parsed == JSONParse(textContent)
        obj == parsed.value
    IN IF \/ parsed.kind # "object"
          \/ ~IsNonEmptyString(obj.assistantMessage)
          \/ ~IsNonEmptyString(obj.nextStep)
       THEN Salvage(textContent)
       ELSE [assistantMessage |-> obj.assistantMessage.v,
             nextStep |-> currentStep,
             notesUpdate |-> obj.notesUpdate]

\* the inner try: JSON.parse, the required fields, the six literals
ParseReply(textContent, currentStep) ==
    LET parsed == JSONParse(textContent)
        obj == parsed.value
    IN IF \/ parsed.kind # "object"
          \/ ~IsNonEmptyString(obj.assistantMessage)
          \/ ~IsNonEmptyString(obj.nextStep)
       THEN Salvage(textContent)
       ELSE [assistantMessage |-> obj.assistantMessage.v,
             nextStep |-> IF obj.nextStep.v \in ValidSteps
                          THEN obj.nextStep.v ELSE currentStep,
             notesUpdate |-> obj.notesUpdate]

FailureOpen(currentStep) ==
    [assistantMessage |-> ApologyMessage, nextStep |-> currentStep,
     notesUpdate |-> NoNotes]

\* the outer catch
Failure(currentStep) ==
    [assistantMessage |-> ApologyMessage, nextStep |-> DONE,
     notesUpdate |-> NoNotes]

\* message.content if it is a string, "" otherwise
TextContent(reply) == IF reply.kind = "content" THEN reply.content ELSE <<>>

\* the outer try: assistantMessage, nextStep and notesUpdate after it
OracleOutcome(reply, currentStep) ==
    IF reply.kind = "throw" \/ Falsy(TextContent(reply))
    THEN Failure(currentStep)
    ELSE LET parsed == ParseReply(TextContent(reply), currentStep)
         IN [assistantMessage |-> Trim(parsed.assistantMessage),
             nextStep |-> IF Falsy(parsed.nextStep) THEN currentStep
                          ELSE parsed.nextStep,
             notesUpdate |-> parsed.notesUpdate]

MergeNotesReplace(notes, notesUpdate) ==
    IF notesUpdate.t = "object" THEN notesUpdate.v ELSE notes

\* { ...session.notes, ...notesUpdate }
MergeNotes(notes, notesUpdate) ==
    IF notesUpdate.t = "object"
    THEN {n \in notes : \A u \in notesUpdate.v : u[1] # n[1]}
            \cup notesUpdate.v
    ELSE notes

--------------------------------------------------------------------------
(***************************************************************************)
(* A turn: POST of src/app/api/chat/route.ts.  One action per stretch of   *)
(* code between two awaits.                                                *)
(***************************************************************************)

\* the session objects still referenced by the store or by a running turn
Collect(h, s, tr) ==
    LET live == {s[k] : k \in DOMAIN s} \cup {tr[u].session : u \in Turns}
    IN [o \in (DOMAIN h) \cap live |-> h[o]]

Put(f, k, value) == [x \in (DOMAIN f) \cup {k} |-> IF x = k THEN value ELSE f[x]]

\* the sessions whose currentStep in the store is DONE
DoneIn(h, s) == {k \in DOMAIN s : h[s[k]].currentStep = DONE}

\* the request arrives: the environment guard, the body, and the
\* synchronous part of getSessionState
StartTurn(t, serial, inputs) ==
    /\ turn[t].pc = "idle"
    /\ serial => \A u \in Turns : turn[u].pc = "idle"
    /\ \E sid \in SessionIdInputs, msg \in inputs.messages,
          na \in inputs.activities :
        LET req == [NoTurn EXCEPT !.sessionId = sid, !.userMessage = msg,
                                  !.nextActivity = na]
        IN turn' = [turn EXCEPT ![t] =
                IF ~env.apiKey
                THEN [req EXCEPT !.pc = "responded",
                                 !.response = ErrorResponse(500, "NoApiKey")]
                ELSE IF sid = ""
                THEN [req EXCEPT !.pc = "responded",
                                 !.response = ErrorResponse(400, "sessionId")]
                ELSE IF msg = <<>>
                THEN [req EXCEPT !.pc = "responded",
                                 !.response =
                                    ErrorResponse(400, "userMessage")]
                ELSE [req EXCEPT !.pc = "load",
                                 !.session = IF sid \in DOMAIN sessions
                                             THEN sessions[sid] ELSE NoObj]]
    /\ UNCHANGED <<sessions, heap, cachedConfig, configLoad, env, everDone, scan,
                   built, admin>>
    /\ UNCHANGED storeVars

\* from the session loaded to the next await: the safety response saved, or
\* the prompt handed to the oracle.  userMessage and nextActivity are not
\* read again after this stretch and are dropped from the locals.
TurnScan(t) ==
    /\ turn[t].pc = "load"
    /\ LET tr == turn[t]
           sid == tr.sessionId
           obj == IF tr.session = NoObj THEN <<t, sid>> ELSE tr.session
           loaded == IF tr.session = NoObj THEN NewSession(sid)
                     ELSE heap[tr.session]
           s1 == IF Falsy(loaded.nextActivityRaw)
                    /\ tr.nextActivity # Undefined
                 THEN [loaded EXCEPT !.nextActivityRaw = tr.nextActivity]
                 ELSE loaded
           cfg == GetPresenceConfig(cachedConfig, configLoad, env.production)
           safety == CheckForSafetyFlags(tr.userMessage, cfg.value)
           s2 == IF safety.flagged
                 THEN [s1 EXCEPT !.currentStep = DONE]
                 ELSE IF Falsy(s1.userFeelingRaw)
                 THEN [s1 EXCEPT !.userFeelingRaw = tr.userMessage]
                 ELSE s1
           sessions2 == IF safety.flagged THEN Put(sessions, sid, obj)
                        ELSE sessions
           turn2 == [turn EXCEPT ![t] =
                        IF safety.flagged
                        THEN [tr EXCEPT !.pc = "safety_saved",
                                        !.userMessage = <<>>,
                                        !.nextActivity = Undefined,
                                        !.session = obj,
                                        !.stepAtLoad = loaded.currentStep,
                                        !.config = cfg.value,
                                        !.flagged = TRUE,
                                        !.assistantMessage =
                                            safety.responseText,
                                        !.done = TRUE]
                        ELSE [tr EXCEPT !.pc = "oracle",
                                        !.userMessage = <<>>,
                                        !.nextActivity = Undefined,
                                        !.session = obj,
                                        !.stepAtLoad = loaded.currentStep,
                                        !.config = cfg.value,
                                        !.prompt =
                                            BuildPromptForStep(
                                                s2.currentStep, s2,
                                                tr.userMessage, cfg.value),
                                        !.nextStep = s2.currentStep]]
           heap2 == Collect(Put(heap, obj, s2), sessions2, turn2)
       IN /\ heap' = heap2
          /\ sessions' = sessions2
          /\ turn' = turn2
          /\ cachedConfig' = cfg.cache
          /\ configLoad' = cfg.load
          /\ everDone' = everDone \cup DoneIn(heap2, sessions2)
    /\ UNCHANGED <<env, scan, built, admin>>
    /\ UNCHANGED storeVars

\* the oracle call settles: from its outcome to the await of the save.  The
\* prompt is not read again and is dropped from the locals.
OracleReturns(t, inputs) ==
    /\ turn[t].pc = "oracle"
    /\ \E reply \in inputs.replies :
        LET tr == turn[t]
            cur == heap[tr.session]
            out == OracleOutcome(reply, cur.currentStep)
            s2 == [cur EXCEPT !.notes = MergeNotes(@, out.notesUpdate),
                              !.currentStep = out.nextStep]
            sessions2 == Put(sessions, tr.sessionId, tr.session)
            turn2 == [turn EXCEPT ![t] =
                        [tr EXCEPT !.pc = "saved", !.reply = reply,
                                   !.prompt = NoPrompt,
                                   !.assistantMessage = out.assistantMessage,
                                   !.nextStep = out.nextStep,
                                   !.done = (out.nextStep = DONE)]]
            heap2 == Collect(Put(heap, tr.session, s2), sessions2, turn2)
        IN /\ heap' = heap2
           /\ sessions' = sessions2
           /\ turn' = turn2
           /\ everDone' = everDone \cup DoneIn(heap2, sessions2)
    /\ UNCHANGED <<cachedConfig, configLoad, env, scan, built, admin>>
    /\ UNCHANGED storeVars

\* after the save: the response body
TurnRespond(t) ==
    /\ turn[t].pc \in {"safety_saved", "saved"}
    /\ LET tr == turn[t]
           message == IF tr.pc = "safety_saved"
                      THEN (IF tr.assistantMessage = Undefined
                            THEN CrisisFallbackMessage
                            ELSE tr.assistantMessage)
                      ELSE (IF Falsy(tr.assistantMessage) THEN PauseMessage
                            ELSE tr.assistantMessage)
       IN turn' = [turn EXCEPT ![t] =
                    [tr EXCEPT !.pc = "responded",
                               !.response =
                                  [status |-> 200, error |-> Null,
                                   assistantMessage |-> message,
                                   currentStep |->
                                      heap[tr.session].currentStep,
                                   done |-> tr.done]]]
    /\ UNCHANGED <<sessions, heap, cachedConfig, configLoad, env, everDone, scan,
                   built, admin>>
    /\ UNCHANGED storeVars

\* the response is delivered
FinishTurn(t) ==
    /\ turn[t].pc = "responded"
    /\ turn' = [turn EXCEPT ![t] = NoTurn]
    /\ heap' = Collect(heap, sessions, turn')
    /\ UNCHANGED <<sessions, cachedConfig, configLoad, env, everDone, scan,
                   built, admin>>
    /\ UNCHANGED storeVars

\* the background getActiveRitualConfig(defaultRitualSlug) settles: its
\* then-callback replaces the cache, its rejection is handled by nobody
ConfigLoadSettles ==
    /\ configLoad = "pending"
    /\ LET found == RitualBySlug(DefaultRitualSlug)
           active == IF found = {} THEN {}
                     ELSE ActiveOf((CHOOSE r \in found : TRUE).id)
       IN IF active = {}
          THEN /\ configLoad' = "rejected"
               /\ UNCHANGED cachedConfig
          ELSE /\ configLoad' = "fulfilled"
               /\ cachedConfig' =
                    (CHOOSE v \in active :
                        \A w \in active :
                            w.versionNumber <= v.versionNumber).configJson
    /\ UNCHANGED <<sessions, heap, env, turn, everDone, scan,
                   built, admin>>
    /\ UNCHANGED storeVars

TurnStep(t, serial, inputs) ==
    \/ StartTurn(t, serial, inputs)
    \/ TurnScan(t)
    \/ OracleReturns(t, inputs)
    \/ TurnRespond(t)
    \/ FinishTurn(t)

\* every request and every outcome of the oracle of the model
AllInputs ==
    [messages |-> UserMessages, activities |-> NextActivities,
     replies |-> OracleReplies]

\* a plain and a flagged message; the oracle fails, answers prose, or
\* answers an object that keeps, advances or closes the session
FewInputs ==
    [messages |-> {<<"o", "k">>, <<"S", "O", "S">>},
     activities |-> {Undefined},
     replies |-> {[kind |-> "throw", content |-> <<>>],
                  [kind |-> "content", content |-> TextProse]}
                    \cup {[kind |-> "content",
                           content |-> JsonText(Obj(Hi, JString(s), NoNotes))]
                            : s \in {INTEND, DONE, Unknown}}]

\* concurrent turns
NextChat ==
    (\E t \in Turns : TurnStep(t, FALSE, FewInputs)) \/ ConfigLoadSettles

\* one turn at a time
NextChatSeq ==
    (\E t \in {"t1"} : TurnStep(t, TRUE, AllInputs)) \/ ConfigLoadSettles

\* the store a chat server starts on: empty, or the default ritual with one
\* active version
ChatStores ==
    {[rituals |-> {}, versions |-> {}]}
        \cup {[rituals |-> {[id |-> 1, slug |-> DefaultRitualSlug,
                            name |-> "Presence Shift"]},
              versions |-> {[id |-> 1, ritualId |-> 1, versionNumber |-> 1,
                             isActive |-> TRUE, label |-> Null,
                             configJson |-> "cfgA"]}]}

InitChat ==
    /\ \E db \in ChatStores :
        /\ rituals = db.rituals
        /\ versions = db.versions
        /\ nextId = Cardinality(db.versions) + 1
        /\ issued = {<<v.ritualId, v.versionNumber>> : v \in db.versions}
    /\ pc = [p \in Procs |-> "idle"]
    /\ call = [p \in Procs |-> NoCall]
    /\ env \in [apiKey : BOOLEAN, production : BOOLEAN]
    /\ ChatIdle

SpecChat == InitChat /\ [][NextChat]_vars

SpecChatSeq == InitChat /\ [][NextChatSeq]_vars

\* one turn at a time, few inputs
NextChatFew ==
    (\E t \in {"t1"} : TurnStep(t, TRUE, FewInputs)) \/ ConfigLoadSettles

\* the awaits of getSessionState and saveSessionState always resume, and a
\* built response is delivered; nothing in the code makes the call of the
\* oracle settle
TurnFairness ==
    \A t \in {"t1"} :
        /\ WF_vars(TurnScan(t))
        /\ WF_vars(TurnRespond(t))
        /\ WF_vars(FinishTurn(t))

SpecChatLive == InitChat /\ [][NextChatFew]_vars /\ TurnFairness

--------------------------------------------------------------------------
(***************************************************************************)
(* checkForSafetyFlags on its own, over texts and configurations.          *)
(***************************************************************************)
ScanAlphabet == {"n", "o", "x", "X"}

ScanTexts ==
    UNION {[1..n -> ScanAlphabet] : n \in 0..MaxText} \cup UserMessages

ScanConfigs == {"default", "cfgA", "cfgB", "cfgC", "cfgD", "cfgE"}

\* one call of checkForSafetyFlags(text) under configuration c
CheckText ==
    /\ \E text \in ScanTexts, c \in ScanConfigs :
        LET result == CheckForSafetyFlags(text, c)
        IN scan' = [called |-> TRUE, text |-> text, config |-> c,
                    flagged |-> result.flagged,
                    responseText |-> result.responseText]
    /\ UNCHANGED <<sessions, heap, cachedConfig, configLoad, env, turn,
                   everDone, built, admin>>
    /\ UNCHANGED storeVars

NextSafety == CheckText

SpecSafety == Init /\ [][NextSafety]_vars

--------------------------------------------------------------------------
(***************************************************************************)
(* buildPromptForStep on its own, over steps, sessions and messages, in a  *)
(* process whose configuration cache lives on between the calls.           *)
(***************************************************************************)
\* a step every configuration describes, a step cfgA does not describe, DONE
PromptSteps == {ANSWER, FLOW, DONE}

PromptFeelings == {Undefined, <<"o", "k">>}

PromptActivities == {Undefined, <<"g">>}

PromptMessages == {<<"o", "k">>, <<"x">>}

\* one call of buildPromptForStep({ step, session, userMessage }).  built
\* keeps this call next to one earlier call, any of them.
BuildPrompt ==
    /\ \E step \in PromptSteps, feeling \in PromptFeelings,
          activity \in PromptActivities, msg \in PromptMessages :
        LET cfg == GetPresenceConfig(cachedConfig, configLoad, env.production)
            session == [NewSession("s1") EXCEPT !.currentStep = step,
                                               !.userFeelingRaw = feeling,
                                               !.nextActivityRaw = activity]
            this == [step |-> step, session |-> session, userMessage |-> msg,
                     config |-> cfg.value,
                     prompt |-> BuildPromptForStep(step, session, msg,
                                                   cfg.value)]
        IN /\ built' \in {<<this>>}
                            \cup {<<built[i], this>> : i \in DOMAIN built}
           /\ cachedConfig' = cfg.cache
           /\ configLoad' = cfg.load
    /\ UNCHANGED <<sessions, heap, env, turn, everDone, scan, admin>>
    /\ UNCHANGED storeVars

NextPrompt == BuildPrompt \/ ConfigLoadSettles

SpecPrompt == InitChat /\ [][NextPrompt]_vars

--------------------------------------------------------------------------
(***************************************************************************)
(* POST /api/admin/config (src/README.md): the secret, the body, the       *)
(* validation, then createRitualConfigVersion with makeActive = true.      *)
(***************************************************************************)

\* the x-admin-secret header: missing, not ADMIN_SECRET, ADMIN_SECRET
AdminHeaders == {"none", "wrong", "secret"}

AdminKeys == {"steps", "brandVoice", "safety"}

\* request bodies: text that is not JSON, null, a string, an array, and
\* objects with any of the three top-level keys
AdminBodies ==
    {[json |-> j, keys |-> {}, config |-> Null]
        : j \in {"invalid", "null", "string", "array"}}
    \cup {[json |-> "object", keys |-> k, config |-> "cfgA"]
            : k \in SUBSET AdminKeys}

\* typeof newConfig === "object"
TypeofObject(body) == body.json \in {"object", "array", "null"}

AdminValidNoSafety(body) ==
    /\ TypeofObject(body)
    /\ body.json # "null"
    /\ "steps" \in body.keys
    /\ "brandVoice" \in body.keys

\* the negation of the basic validation of the handler
AdminValid(body) ==
    /\ TypeofObject(body)
    /\ body.json # "null"
    /\ "steps" \in body.keys
    /\ "brandVoice" \in body.keys
    /\ "safety" \in body.keys

\* process.env.DEFAULT_RITUAL_NAME || "Presence Shift 1 - Foundation"
DefaultRitualName == "Presence Shift"

Answered(status) == [NoRequest EXCEPT !.pc = "responded", !.status = status]

\* the request arrives: ADMIN_SECRET, the header, up to await req.json()
AdminPost(p) ==
    /\ admin.req[p].pc = "idle"
    /\ Idle(p)
    /\ \E header \in AdminHeaders :
        admin' = [admin EXCEPT !.req[p] =
                    IF ~admin.secretSet THEN Answered(500)
                    ELSE IF header # "secret" THEN Answered(401)
                    ELSE [NoRequest EXCEPT !.pc = "body"]]
    /\ UNCHANGED <<sessions, heap, cachedConfig, configLoad, env, turn,
                   everDone, scan, built>>
    /\ UNCHANGED storeVars

\* the body is read: invalid JSON, the validation, or the call of
\* createRitualConfigVersion
AdminBody(p) ==
    /\ admin.req[p].pc = "body"
    /\ \E body \in AdminBodies :
        /\ AdminValid(body) => Room
        /\ IF body.json = "invalid" \/ ~AdminValid(body)
           THEN /\ admin' = [admin EXCEPT !.req[p] =
                                [Answered(400) EXCEPT !.body = body]]
                /\ UNCHANGED <<pc, call>>
           ELSE /\ admin' = [admin EXCEPT !.req[p] =
                                [NoRequest EXCEPT !.pc = "creating",
                                                  !.body = body]]
                /\ call' = [call EXCEPT ![p] =
                            [NoCall EXCEPT !.op = "create",
                                           !.ritualSlug = DefaultRitualSlug,
                                           !.ritualName = DefaultRitualName,
                                           !.config = body.config,
                                           !.label = "Admin edit",
                                           !.makeActive = TRUE]]
                /\ pc' = [pc EXCEPT ![p] = "cv_ensure"]
    /\ UNCHANGED <<rituals, versions, nextId, issued>>
    /\ UNCHANGED <<sessions, heap, cachedConfig, configLoad, env, turn,
                   everDone, scan, built>>

\* createRitualConfigVersion returned or threw: 200 with the id, or 500
AdminRespond(p) ==
    /\ admin.req[p].pc = "creating"
    /\ pc[p] \in {"returned", "threw"}
    /\ admin' = [admin EXCEPT !.req[p] =
                    [@ EXCEPT !.pc = "responded",
                              !.status = IF pc[p] = "returned" THEN 200
                                         ELSE 500,
                              !.versionId =
                                  IF pc[p] = "returned"
                                  THEN (CHOOSE r \in call[p].out : TRUE).id
                                  ELSE NoId]]
    /\ pc' = [pc EXCEPT ![p] = "idle"]
    /\ call' = [call EXCEPT ![p] = NoCall]
    /\ UNCHANGED <<rituals, versions, nextId, issued>>
    /\ UNCHANGED <<sessions, heap, cachedConfig, configLoad, env, turn,
                   everDone, scan, built>>

\* the response is delivered
AdminFinish(p) ==
    /\ admin.req[p].pc = "responded"
    /\ admin' = [admin EXCEPT !.req[p] = NoRequest]
    /\ UNCHANGED <<sessions, heap, cachedConfig, configLoad, env, turn,
                   everDone, scan, built>>
    /\ UNCHANGED storeVars

AdminStep(p) ==
    \/ AdminPost(p)
    \/ AdminBody(p)
    \/ CvEnsure(p)
    \/ CvMax(p)
    \/ CvDeactivate(p)
    \/ CvCreate(p)
    \/ AdminRespond(p)
    \/ AdminFinish(p)

\* concurrent requests
NextAdmin == \E p \in Procs : AdminStep(p)

\* an empty store, ADMIN_SECRET set or not
InitAdmin ==
    /\ rituals = {}
    /\ versions = {}
    /\ nextId = 1
    /\ issued = {}
    /\ pc = [p \in Procs |-> "idle"]
    /\ call = [p \in Procs |-> NoCall]
    /\ env = [apiKey |-> TRUE, production |-> FALSE]
    /\ ChatQuiet
    /\ admin \in {[NoAdmin EXCEPT !.secretSet = b] : b \in BOOLEAN}

SpecAdmin == InitAdmin /\ [][NextAdmin]_vars


--------------------------------------------------------------------------
(***************************************************************************)
(* Properties.                                                             *)
(***************************************************************************)
AllIdle == \A p \in Procs : Idle(p)

Ids(vs) == {v.id : v \in vs}

\* the rows the step inserts
Inserted == {v \in versions' : v.id \notin Ids(versions)}

\* C1: in every reachable state, intermediate states of interleaved calls
\* included, at most one version of a ritual has isActive = true.
C1_AtMostOneActive ==
    \A r \in rituals : Cardinality(ActiveOf(r.id)) <= 1

\* C2: once every call of a run of createVersion(makeActive=true) and
\* activateVersion calls has completed, each ritual with at least one version
\* has exactly one active version.
C2_ExactlyOneActiveWhenQuiet ==
    AllIdle =>
        \A r \in rituals :
            VersionsOf(r.id) # {} => Cardinality(ActiveOf(r.id)) = 1

\* C3: a reader never observes a ritual with at least one version and no
\* active version: a non-empty listing returned by listVersions holds an
\* active row.
C3_ReaderSeesAnActiveVersion ==
    \A p \in Procs :
        (pc[p] = "returned" /\ call[p].op = "list" /\ call[p].out # {})
            => \E v \in call[p].out : v.isActive

\* C4: createVersion(makeActive=true) is all-or-nothing: a call that failed
\* after deactivating versions, with no other call running, does not leave
\* its ritual without an active version.
C4_FailedCreateLeavesAnActiveVersion ==
    \A p \in Procs :
        (/\ pc[p] = "threw"
         /\ call[p].op = "create"
         /\ call[p].flipped # {}
         /\ \A q \in Procs \ {p} : Idle(q))
            => ActiveOf(call[p].ritualId) # {}

\* C5: no createVersion or duplicateVersion call fails with the rejection of
\* its insert by the unique (ritualId, versionNumber) index.
C5_NoConcurrencyViolationSurfaces ==
    \A p \in Procs : ~(pc[p] = "threw" /\ call[p].error = "UniqueViolation")

\* C6: the version numbers of a ritual are positive, pairwise distinct and
\* exactly 1..n in every reachable state, and every inserted version has a
\* number greater than every number stored for its ritual before the insert.
C6_NumbersWellFormed ==
    \A r \in rituals :
        /\ \A v \in VersionsOf(r.id) : v.versionNumber >= 1
        /\ \A v, w \in VersionsOf(r.id) :
                v.id # w.id => v.versionNumber # w.versionNumber
        /\ Numbers(r.id) = 1..Cardinality(Ids(VersionsOf(r.id)))

C6_InsertAboveAll ==
    \A v \in Inserted :
        \A w \in VersionsOf(v.ritualId) : v.versionNumber > w.versionNumber

C6_VersionNumbers == []C6_NumbersWellFormed /\ [][C6_InsertAboveAll]_vars

C6_Witness ==
    \E r \in rituals : Numbers(r.id) = 1..MaxVersions /\ MaxVersions >= 2

\* C7: a version number once assigned in a ritual is never assigned again to
\* a later version of that ritual, also after rows were deleted.
C7_NumberNeverReused ==
    [][\A v \in Inserted : <<v.ritualId, v.versionNumber>> \notin issued]_vars

\* C8: activateVersion of an existing version, with no concurrent writer,
\* returns with the target active and every other version of its ritual
\* inactive, and does not fail.
C8_ActivateMakesTargetTheOnlyActive ==
    \A p \in Procs :
        call[p].op = "activate" =>
            /\ pc[p] = "returned" =>
                /\ \E v \in versions : v.id = call[p].versionId /\ v.isActive
                /\ \A w \in VersionsOf(call[p].ritualId) :
                        w.isActive => w.id = call[p].versionId
                /\ call[p].out = {v \in versions : v.id = call[p].versionId}
            /\ pc[p] = "threw" =>
                ~ \E v \in versions : v.id = call[p].versionId

\* rollback: the target is an older, inactive-before version
C8_Witness ==
    \E p \in Procs :
        /\ pc[p] = "returned"
        /\ call[p].op = "activate"
        /\ \E v, w \in VersionsOf(call[p].ritualId) :
              /\ v.id = call[p].versionId
              /\ v.versionNumber < w.versionNumber

\* C9: activateVersion of a version id that does not exist fails with a
\* not-found error and changes no row of Ritual or RitualConfigVersion.
C9_Missing(p) ==
    /\ call[p].op = "activate"
    /\ ~ \E v \in versions : v.id = call[p].versionId

C9_ActivateMissingStep ==
    \A p \in Procs :
        /\ (pc[p] = "av_find" /\ pc'[p] # "av_find" /\ C9_Missing(p))
              => /\ pc'[p] = "threw"
                 /\ call'[p].error = "NotFound"
                 /\ UNCHANGED <<rituals, versions>>
        /\ (pc[p] = "threw" /\ pc'[p] # "threw" /\ call[p].op = "activate")
              => /\ pc'[p] = "idle"
                 /\ UNCHANGED <<rituals, versions>>

C9_ActivateMissingFails == [][C9_ActivateMissingStep]_vars

C9_Witness ==
    \E p \in Procs :
        /\ pc[p] = "threw"
        /\ call[p].op = "activate"
        /\ call[p].error = "NotFound"
        /\ \E v \in versions : v.isActive

\* C10: duplicateVersion of an existing source, one call at a time, inserts
\* exactly one row: of the source's ritual, with the source's configJson, a
\* fresh id, the ritual's maximum versionNumber plus one and, when no label
\* is given, the label "Copy of v<source versionNumber>"; the source row
\* keeps its configJson and versionNumber; the call does not fail.
C10_ExpectedLabel(n) ==
    <<"Copy of v1", "Copy of v2", "Copy of v3", "Copy of v4", "Copy of v5",
      "Copy of v6", "Copy of v7", "Copy of v8", "Copy of v9">>[n]

C10_DuplicateStep ==
    \A p \in Procs :
        (call[p].op = "duplicate" /\ pc[p] = "cv_create" /\ pc'[p] # "cv_create")
        => /\ pc'[p] = "returned"
           /\ Cardinality(Inserted) = 1
           /\ Cardinality(versions') = Cardinality(versions) + 1
           /\ call'[p].out = Inserted
           /\ \E src \in versions :
                /\ src.id = call[p].versionId
                /\ \E kept \in versions' :
                      /\ kept.id = src.id
                      /\ kept.configJson = src.configJson
                      /\ kept.versionNumber = src.versionNumber
                      /\ kept.ritualId = src.ritualId
                /\ \A new \in Inserted :
                      /\ new.ritualId = src.ritualId
                      /\ new.configJson = src.configJson
                      /\ new.versionNumber = MaxOf(Numbers(src.ritualId)) + 1
                      /\ call[p].dupLabel = Null
                            => new.label = C10_ExpectedLabel(src.versionNumber)
                      /\ call[p].dupLabel # Null => new.label = call[p].dupLabel

C10_DuplicateReturns ==
    \A p \in Procs :
        (call[p].op = "duplicate" /\ pc[p] = "threw")
            => ~ \E v \in versions : v.id = call[p].versionId

C10_Duplicate == []C10_DuplicateReturns /\ [][C10_DuplicateStep]_vars

C10_Witness ==
    \E p \in Procs :
        /\ pc[p] = "returned"
        /\ call[p].op = "duplicate"
        /\ call[p].dupLabel = Null
        /\ \E new \in call[p].out :
              /\ new.label = "Copy of v1"
              /\ new.versionNumber = 2
              /\ new \in versions

\* C11: duplicateVersion fails with a not-found error when the source
\* version or its ritual is not found, and then inserts no version and
\* changes no isActive flag.
C11_DuplicateMissingStep ==
    \A p \in Procs :
        call[p].op = "duplicate" =>
            /\ (/\ pc[p] = "dv_source" /\ pc'[p] # "dv_source"
                /\ ~ \E v \in versions : v.id = call[p].versionId)
                  => /\ pc'[p] = "threw"
                     /\ call'[p].error = "NotFound"
                     /\ UNCHANGED <<rituals, versions>>
            /\ (/\ pc[p] = "dv_ritual" /\ pc'[p] # "dv_ritual"
                /\ ~ \E r \in rituals : r.id = call[p].ritualId)
                  => /\ pc'[p] = "threw"
                     /\ call'[p].error = "NotFound"
                     /\ UNCHANGED <<rituals, versions>>
            /\ (pc[p] = "threw" /\ pc'[p] # "threw")
                  => /\ pc'[p] = "idle"
                     /\ UNCHANGED <<rituals, versions>>

C11_DuplicateMissingFails == [][C11_DuplicateMissingStep]_vars

C11_Witness ==
    \E p \in Procs :
        /\ pc[p] = "threw"
        /\ call[p].op = "duplicate"
        /\ call[p].error = "NotFound"
        /\ call[p].nextVersionNumber = 0
        /\ \E v \in versions : v.isActive

\* C12: listVersions returns every version of the ritual, in strictly
\* descending versionNumber order, the most recently created version first;
\* for a slug without ritual it returns the empty sequence and no error.
C12_ListStep ==
    \A p \in Procs :
        /\ (pc[p] = "lv_versions" /\ pc'[p] # "lv_versions")
              => LET l == call'[p].listed
                     rows == {v \in versions : v.ritualId = call[p].ritualId}
                 IN /\ pc'[p] = "returned"
                    /\ {l[i] : i \in 1..Len(l)} = rows
                    /\ Len(l) = Cardinality(rows)
                    /\ \A i, j \in 1..Len(l) :
                          i < j => l[i].versionNumber > l[j].versionNumber
                    /\ l # <<>> => \A v \in rows : v.id <= l[1].id
        /\ (/\ pc[p] = "lv_ritual" /\ pc'[p] # "lv_ritual"
            /\ ~ \E r \in rituals : r.slug = call[p].ritualSlug)
              => /\ pc'[p] = "returned"
                 /\ call'[p].listed = <<>>
                 /\ call'[p].error = Null

C12_ListNewestFirst == [][C12_ListStep]_vars

C12_Witness ==
    \E p \in Procs :
        /\ pc[p] = "returned"
        /\ call[p].op = "list"
        /\ Len(call[p].listed) = 2
        /\ call[p].listed[1].versionNumber = 2
        /\ call[p].listed[1].id = nextId - 1

\* C13: no step deletes a version row or changes the id, ritualId,
\* versionNumber, configJson or label of an existing row; isActive is the
\* only field of an existing row a step changes.
C13_RowsKept ==
    \A v \in versions :
        \E w \in versions' :
            /\ w.id = v.id
            /\ w.ritualId = v.ritualId
            /\ w.versionNumber = v.versionNumber
            /\ w.configJson = v.configJson
            /\ w.label = v.label

C13_AppendOnly == [][C13_RowsKept]_vars

\* a row whose isActive flag a later createVersion cleared
C13_Witness ==
    \E p \in Procs :
        /\ pc[p] = "returned"
        /\ \E v \in versions : v.id \in call[p].flipped /\ ~ v.isActive

--------------------------------------------------------------------------
(***************************************************************************)
(* Properties of the chat turn.                                            *)
(***************************************************************************)

\* the configuration a call of getPresenceConfig made in this state returns
ConfigInUse == GetPresenceConfig(cachedConfig, configLoad, env.production).value

\* kw occurs in text, the case of the letters ignored
OccursIgnoringCase(text, kw) ==
    \E i \in 0..(Len(text) - Len(kw)) :
        \A j \in 1..Len(kw) : LowerChar(text[i + j]) = LowerChar(kw[j])

\* text contains one of the non-empty safety keywords of configuration c
HasKeyword(text, c) ==
    \E k \in 1..Len(KeywordsOf(c)) :
        /\ KeywordsOf(c)[k] # <<>>
        /\ OccursIgnoringCase(text, KeywordsOf(c)[k])

\* the crisis text configuration c gives
CrisisText(c) ==
    LET parts == JoinParts(Trim(ConfigData(c).crisisTemplate),
                           Trim(ConfigData(c).disclaimer))
    IN IF parts = <<>> THEN CrisisFallbackMessage ELSE parts

\* the step of turn t that follows the load of the session
Scans(t) == turn[t].pc = "load" /\ turn'[t].pc # "load"

\* the currentStep the store holds for a session
Persisted(h, s, sid) == h[s[sid]].currentStep

\* C14: a turn whose userMessage contains a configured safety keyword,
\* compared case-insensitively, saves the session with currentStep = DONE
\* without calling the oracle, and responds with done = true and the
\* configured crisis text.
C14_SafetyStep ==
    \A t \in Turns :
        /\ (Scans(t) /\ HasKeyword(turn[t].userMessage, ConfigInUse))
            => /\ turn'[t].pc = "safety_saved"
               /\ turn'[t].reply = NoReply
               /\ turn[t].sessionId \in DOMAIN sessions'
               /\ Persisted(heap', sessions', turn[t].sessionId) = DONE
        /\ (turn[t].pc = "safety_saved" /\ turn'[t].pc = "responded")
            => /\ turn'[t].response.status = 200
               /\ turn'[t].response.done
               /\ turn'[t].response.assistantMessage
                    = CrisisText(turn[t].config)

C14_SafetyOverride == [][C14_SafetyStep]_vars

\* C15: a turn submitted for a session whose persisted currentStep is DONE
\* is handled without calling the oracle.
C15_DoneStep ==
    \A t \in Turns :
        (/\ Scans(t)
         /\ turn[t].sessionId \in DOMAIN sessions
         /\ Persisted(heap, sessions, turn[t].sessionId) = DONE)
            => turn'[t].pc # "oracle"

C15_DoneSkipsOracle == [][C15_DoneStep]_vars

\* C16: DONE is terminal: a session whose persisted currentStep is DONE has
\* persisted currentStep DONE after every step of every later turn.
C16_DoneStays ==
    \A sid \in DOMAIN sessions :
        Persisted(heap, sessions, sid) = DONE
            => Persisted(heap', sessions', sid) = DONE

C16_DoneIsTerminal == [][C16_DoneStays]_vars

\* C17: once the persisted currentStep of a session has been DONE, every
\* prompt built for that session is the completion notice, never a
\* generation instruction.
C17_PromptStep ==
    \A t \in Turns :
        (/\ Scans(t)
         /\ turn[t].sessionId \in everDone
         /\ turn'[t].prompt # NoPrompt)
            => turn'[t].prompt.kind = "doneNotice"

C17_NoInstructionAfterDone == [][C17_PromptStep]_vars

\* the step of turn t in which the call of the oracle settles
Returns(t) == turn[t].pc = "oracle" /\ turn'[t].pc = "saved"

\* the step of turn t that builds the response after the save
Responds(t) == turn[t].pc = "saved" /\ turn'[t].pc = "responded"

\* the object a reply denotes
ObjectOf(reply) == JSONParse(reply.content).value

\* a reply that is an object with a non-empty string assistantMessage and
\* a non-empty string nextStep
WellFormed(reply) ==
    /\ reply.kind = "content"
    /\ reply.content # <<>>
    /\ JSONParse(reply.content).kind = "object"
    /\ IsNonEmptyString(ObjectOf(reply).assistantMessage)
    /\ IsNonEmptyString(ObjectOf(reply).nextStep)

\* a well-formed reply whose nextStep is none of the six literals
UnknownNextStep(reply) ==
    /\ WellFormed(reply)
    /\ ObjectOf(reply).nextStep.v \notin ValidStepsNoDone \cup {DONE}

\* what the response carries for a message m of the oracle
Returned(m) == IF Trim(m) = <<>> THEN PauseMessage ELSE Trim(m)

\* C18 as stated: on a well-formed reply with an unknown nextStep the
\* session keeps the currentStep it had before the turn, and the response
\* carries the assistantMessage of the oracle as it is.
C18_AsStatedStep ==
    \A t \in Turns :
        /\ (Returns(t) /\ UnknownNextStep(turn'[t].reply))
            => Persisted(heap', sessions', turn[t].sessionId)
                    = turn[t].stepAtLoad
        /\ (Responds(t) /\ UnknownNextStep(turn[t].reply))
            => turn'[t].response.assistantMessage
                    = ObjectOf(turn[t].reply).assistantMessage.v

C18_AsStated == [][C18_AsStatedStep]_vars

\* C18: on a well-formed reply with an unknown nextStep the session keeps
\* the currentStep it had before the turn, and the response carries the
\* assistantMessage of the oracle trimmed, or the fixed pause message if
\* nothing is left of it after the trim.
C18_UnknownStep ==
    \A t \in Turns :
        /\ (Returns(t) /\ UnknownNextStep(turn'[t].reply))
            => /\ Persisted(heap', sessions', turn[t].sessionId)
                    = turn[t].stepAtLoad
               /\ turn'[t].done = (turn[t].stepAtLoad = DONE)
        /\ (Responds(t) /\ UnknownNextStep(turn[t].reply))
            => /\ turn'[t].response.status = 200
               /\ turn'[t].response.assistantMessage
                    = Returned(ObjectOf(turn[t].reply).assistantMessage.v)

C18_UnknownNextStepKeepsStep == [][C18_UnknownStep]_vars

C18_Witness ==
    \E t \in Turns :
        /\ turn[t].pc = "responded"
        /\ UnknownNextStep(turn[t].reply)
        /\ turn[t].stepAtLoad = FOCUS
        /\ turn[t].response.currentStep = FOCUS
        /\ turn[t].response.assistantMessage = <<"h", "i">>

\* a reply with text that is not a well-formed object
Malformed(reply) ==
    reply.kind = "content" /\ reply.content # <<>> /\ ~WellFormed(reply)

\* C19 as stated: on a malformed reply the turn saves currentStep = DONE,
\* responds done = true, and the response carries the raw text cut to 500
\* characters.
C19_AsStatedStep ==
    \A t \in Turns :
        /\ (Returns(t) /\ Malformed(turn'[t].reply))
            => Persisted(heap', sessions', turn[t].sessionId) = DONE
        /\ (Responds(t) /\ Malformed(turn[t].reply))
            => /\ turn'[t].response.done
               /\ turn'[t].response.assistantMessage
                    = Substring0(turn[t].reply.content, SubstringLimit)

C19_MalformedStep ==
    \A t \in Turns :
        /\ (Returns(t) /\ Malformed(turn'[t].reply))
            => Persisted(heap', sessions', turn[t].sessionId) = DONE
        /\ (Responds(t) /\ Malformed(turn[t].reply))
            => /\ turn'[t].response.status = 200
               /\ turn'[t].response.done
               /\ turn'[t].response.assistantMessage
                    = Returned(Substring0(turn[t].reply.content,
                                          SubstringLimit))

Failed(reply) ==
    reply.kind \in {"throw", "noContent"}
        \/ (reply.kind = "content" /\ reply.content = <<>>)

\* C20: when the call of the oracle throws or returns empty output, the
\* turn saves currentStep = DONE and responds with status 200, done = true
\* and the fixed apology message.
C20_FailureStep ==
    \A t \in Turns :
        /\ (Returns(t) /\ Failed(turn'[t].reply))
            => Persisted(heap', sessions', turn[t].sessionId) = DONE
        /\ (Responds(t) /\ Failed(turn[t].reply))
            => /\ turn'[t].response.status = 200
               /\ turn'[t].response.error = Null
               /\ turn'[t].response.done
               /\ turn'[t].response.currentStep = DONE
               /\ turn'[t].response.assistantMessage = ApologyMessage

C20_FailureClosesSession == [][C20_FailureStep]_vars

C20_Witness ==
    \E t \in Turns :
        /\ turn[t].pc = "responded"
        /\ turn[t].reply.kind = "throw"
        /\ turn[t].stepAtLoad = ANSWER
        /\ turn[t].response.assistantMessage = ApologyMessage
        /\ Persisted(heap, sessions, turn[t].sessionId) = DONE

--------------------------------------------------------------------------
(***************************************************************************)
(* Properties of checkForSafetyFlags.                                      *)
(***************************************************************************)

\* a keyword of configuration c, lower-cased, occurs in the lower-cased text
KeywordOccurs(text, c) ==
    \E k \in 1..Len(KeywordsOf(c)) :
        OccursIgnoringCase(text, KeywordsOf(c)[k])

\* C29: checkForSafetyFlags returns flagged = true if and only if a
\* configured keyword, lower-cased, occurs in the lower-cased text; a result
\* that is not flagged has no responseText.
C29_FlaggedIffKeyword ==
    scan.called =>
        /\ scan.flagged <=> KeywordOccurs(scan.text, scan.config)
        /\ ~scan.flagged => scan.responseText = Undefined

\* the response text the two parts of configuration c give
ResponseParts(c) ==
    LET a == Trim(ConfigData(c).crisisTemplate)
        b == Trim(ConfigData(c).disclaimer)
    IN IF a = <<>> /\ b = <<>> THEN CrisisFallbackMessage
       ELSE IF a = <<>> THEN b
       ELSE IF b = <<>> THEN a
       ELSE a \o <<"\n", "\n">> \o b

\* C30: on a flagged result responseText is the trimmed crisisTemplate and
\* the trimmed disclaimer joined by a blank line, empty parts skipped, and
\* the hard-coded fallback exactly when both are empty; it is never empty
\* and is the same for every keyword that matched.
C30_ResponseText ==
    (scan.called /\ scan.flagged) =>
        /\ scan.responseText = ResponseParts(scan.config)
        /\ scan.responseText # <<>>
        /\ scan.responseText # Undefined
        /\ (scan.responseText = CrisisFallbackMessage)
            <=> (/\ Trim(ConfigData(scan.config).crisisTemplate) = <<>>
                 /\ Trim(ConfigData(scan.config).disclaimer) = <<>>)

C30_Witness ==
    /\ scan.called
    /\ scan.flagged
    /\ scan.config = "cfgC"
    /\ scan.text = <<"X", "o", "n">>
    /\ scan.responseText = <<"D">>

--------------------------------------------------------------------------
(***************************************************************************)
(* Properties of the chat turn: transitions, captures, responses.          *)
(***************************************************************************)

\* a well-formed reply whose nextStep is one of the six literals
ProposesLiteral(reply) ==
    /\ WellFormed(reply)
    /\ ObjectOf(reply).nextStep.v \in ValidStepsNoDone \cup {DONE}

Proposed(reply) == ObjectOf(reply).nextStep.v

\* C21: on a session that is not DONE, a reply proposing one of the six
\* literals makes exactly that literal the persisted currentStep, forward,
\* skipping or backward, and the response reports it with done true
\* exactly for DONE.
C21_TransitionStep ==
    \A t \in Turns :
        /\ (/\ Returns(t)
            /\ turn[t].stepAtLoad # DONE
            /\ ProposesLiteral(turn'[t].reply))
            => /\ Persisted(heap', sessions', turn[t].sessionId)
                    = Proposed(turn'[t].reply)
               /\ turn'[t].done = (Proposed(turn'[t].reply) = DONE)
        /\ (/\ Responds(t)
            /\ turn[t].stepAtLoad # DONE
            /\ ProposesLiteral(turn[t].reply))
            => /\ turn'[t].response.currentStep = Proposed(turn[t].reply)
               /\ turn'[t].response.done = (Proposed(turn[t].reply) = DONE)

C21_ProposedStepAccepted == [][C21_TransitionStep]_vars

C21_Witness ==
    \E t \in Turns :
        /\ turn[t].pc = "responded"
        /\ turn[t].stepAtLoad = FLOW
        /\ ProposesLiteral(turn[t].reply)
        /\ Proposed(turn[t].reply) = ANSWER
        /\ turn[t].response.currentStep = ANSWER
        /\ ~turn[t].response.done
        /\ Persisted(heap, sessions, turn[t].sessionId) = ANSWER

\* C22: the first turn for a sessionId that is not in the store starts from
\* a session with currentStep ANSWER and empty notes; for a message that is
\* not flagged the session has userFeelingRaw = userMessage and
\* nextActivityRaw = nextActivity, and that session is the one persisted.
C22_FirstTurnStep ==
    \A t \in Turns :
        /\ (Scans(t) /\ turn[t].session = NoObj)
            => LET o == heap'[turn'[t].session]
               IN /\ turn'[t].stepAtLoad = ANSWER
                  /\ o.sessionId = turn[t].sessionId
                  /\ o.notes = {}
                  /\ turn'[t].pc = "oracle"
                        => /\ o.currentStep = ANSWER
                           /\ turn'[t].prompt.step = ANSWER
                           /\ o.userFeelingRaw = turn[t].userMessage
                           /\ o.nextActivityRaw = turn[t].nextActivity
        /\ (Returns(t) /\ turn[t].sessionId \notin DOMAIN sessions)
            => /\ sessions'[turn[t].sessionId] = turn[t].session
               /\ heap'[turn[t].session].userFeelingRaw
                    = heap[turn[t].session].userFeelingRaw
               /\ heap'[turn[t].session].nextActivityRaw
                    = heap[turn[t].session].nextActivityRaw

C22_FirstTurnCreates == [][C22_FirstTurnStep]_vars

C22_Witness ==
    \E t \in Turns :
        /\ turn[t].pc = "oracle"
        /\ turn[t].sessionId \notin DOMAIN sessions
        /\ turn[t].stepAtLoad = ANSWER
        /\ heap[turn[t].session].userFeelingRaw = <<"o", "k">>
        /\ heap[turn[t].session].nextActivityRaw = <<"g">>
        /\ heap[turn[t].session].notes = {}

\* C23: once the persisted userFeelingRaw (nextActivityRaw) of a session is
\* a non-empty value, no step of any turn changes it.
C23_CapturedStep ==
    \A sid \in DOMAIN sessions :
        LET before == heap[sessions[sid]]
            after == heap'[sessions'[sid]]
        IN /\ ~Falsy(before.userFeelingRaw)
                => after.userFeelingRaw = before.userFeelingRaw
           /\ ~Falsy(before.nextActivityRaw)
                => after.nextActivityRaw = before.nextActivityRaw

C23_FirstWriteWins == [][C23_CapturedStep]_vars

\* the userFeelingRaw of the session turn t has loaded
LoadedFeeling(t) ==
    IF turn[t].session = NoObj THEN Undefined
    ELSE heap[turn[t].session].userFeelingRaw

\* C24: a turn on a session whose userFeelingRaw is unset sets it to the
\* userMessage of the turn before the safety scan decides, so also when
\* the message is flagged.
C24_CaptureStep ==
    \A t \in Turns :
        (Scans(t) /\ LoadedFeeling(t) = Undefined)
            => heap'[turn'[t].session].userFeelingRaw = turn[t].userMessage

C24_CaptureBeforeScan == [][C24_CaptureStep]_vars

\* C25: a chat response carries the currentStep the turn has persisted, and
\* done = true exactly when that step is DONE.
C25_ResponseStep ==
    \A t \in Turns :
        (turn[t].pc \in {"safety_saved", "saved"}
            /\ turn'[t].pc = "responded")
            => /\ turn'[t].response.currentStep
                    = (IF turn[t].pc = "safety_saved" THEN DONE
                       ELSE turn[t].nextStep)
               /\ turn'[t].response.done
                    = (turn'[t].response.currentStep = DONE)

C25_ResponseMatchesPersisted == [][C25_ResponseStep]_vars

\* C26: a turn with a non-empty sessionId and userMessage never ends in an
\* error response; it ends with status 200 and a non-empty message.
C26_Outcomes ==
    \A t \in Turns :
        (/\ turn[t].pc = "responded"
         /\ turn[t].response.status # 200)
            => (turn[t].sessionId = "" \/ turn[t].userMessage = <<>>)

C28_WriteStep ==
    \A t \in Turns :
        ((Scans(t) \/ Returns(t)) /\ turn[t].sessionId \in DOMAIN sessions)
            => /\ sessions[turn[t].sessionId] = turn[t].session
               /\ Returns(t)
                    => Persisted(heap, sessions, turn[t].sessionId)
                            = turn[t].stepAtLoad

C28_NoLostUpdate == [][C28_WriteStep]_vars

--------------------------------------------------------------------------
(***************************************************************************)
(* Properties of the session under overlapping turns, of the notes and of  *)
(* the persisted step.                                                     *)
(***************************************************************************)

\* a safety-flagged turn has completed on the session object turn t holds.
\* With stepAtLoad # DONE for turn t, turn t had passed its safety scan and
\* was awaiting the oracle when the flagged turn wrote DONE to the object.
FlaggedCompleted(t) ==
    \E u \in Turns \ {t} :
        /\ turn[u].sessionId = turn[t].sessionId
        /\ turn[u].session = turn[t].session
        /\ turn[u].flagged
        /\ turn[u].pc = "responded"

\* C37: after a safety-flagged turn of a session has completed, the
\* persisted currentStep of the session stays DONE when a turn of the same
\* session that was in flight, awaiting the oracle, while the flagged turn
\* ran completes: the completion of the in-flight turn does not move the
\* session out of DONE.
C37_InFlightStep ==
    \A t \in Turns :
        (/\ Returns(t)
         /\ turn[t].stepAtLoad # DONE
         /\ FlaggedCompleted(t)
         /\ turn[t].sessionId \in DOMAIN sessions
         /\ Persisted(heap, sessions, turn[t].sessionId) = DONE)
            => Persisted(heap', sessions', turn[t].sessionId) = DONE

C37_FlaggedStaysDone == [][C37_InFlightStep]_vars

\* the notes of the session object of turn t
NotesOf(h, t) == h[turn[t].session].notes

\* after is before with every entry of update written over it, key by key
ShallowMerge(before, update, after) ==
    /\ \A u \in update : u \in after
    /\ \A n \in before : (\A u \in update : u[1] # n[1]) => n \in after
    /\ \A n \in after : n \in before \/ n \in update
    /\ \A a \in after : \A b \in after : a[1] = b[1] => a = b

\* C38: the notes merge is a shallow per-key overwrite: after a turn whose
\* oracle output carries an object notesUpdate, every key of notesUpdate has
\* its new value in session.notes and every other key of session.notes is
\* unchanged; on a turn that ends by safety flag, oracle failure or
\* malformed output, session.notes is unchanged.
C38_NotesStep ==
    \A t \in Turns :
        /\ (Returns(t) /\ WellFormed(turn'[t].reply)
                /\ ObjectOf(turn'[t].reply).notesUpdate.t = "object")
            => ShallowMerge(NotesOf(heap, t),
                            ObjectOf(turn'[t].reply).notesUpdate.v,
                            NotesOf(heap', t))
        /\ (Returns(t) /\ (Failed(turn'[t].reply) \/ Malformed(turn'[t].reply)))
            => NotesOf(heap', t) = NotesOf(heap, t)
        /\ (Scans(t) /\ turn'[t].flagged)
            => heap'[turn'[t].session].notes
                    = IF turn[t].session = NoObj THEN {}
                      ELSE NotesOf(heap, t)

C38_NotesMerge == [][C38_NotesStep]_vars

C38_Witness ==
    \E t \in Turns :
        /\ turn[t].pc = "saved"
        /\ WellFormed(turn[t].reply)
        /\ ObjectOf(turn[t].reply).notesUpdate = NotesA
        /\ NotesOf(heap, t) = {<<"answer", <<"n">>>>, <<"intend", <<"n">>>>}

\* the six literals of PresenceStep
PresenceSteps == {ANSWER, INTEND, FOCUS, FLOW, BEGIN, DONE}

\* C39: in every reachable state the currentStep persisted for every
\* session is one of the six literals ANSWER, INTEND, FOCUS, FLOW, BEGIN,
\* DONE, whatever text or JSON value the oracle returns.
C39_PersistedStepIsLiteral ==
    \A sid \in DOMAIN sessions :
        Persisted(heap, sessions, sid) \in PresenceSteps

C39_Witness ==
    \E t \in Turns :
        /\ turn[t].pc = "saved"
        /\ UnknownNextStep(turn[t].reply)
        /\ turn[t].stepAtLoad = BEGIN
        /\ Persisted(heap, sessions, turn[t].sessionId) = BEGIN

--------------------------------------------------------------------------
(***************************************************************************)
(* Properties of the store across rituals.                                 *)
(***************************************************************************)

\* the call running in p takes this step
Steps(p) == pc'[p] # pc[p] \/ call'[p] # call[p]

\* C40: createVersion, activateVersion and duplicateVersion applied to a
\* version or slug of ritual R leave every version row of every other
\* ritual unchanged, in particular their isActive flags, also when calls on
\* those other rituals are interleaved.
C40_FrameStep ==
    \A p \in Procs :
        (Steps(p) /\ call'[p].op \in {"create", "activate", "duplicate"})
            => \A v \in versions \cup versions' :
                    v.ritualId # call'[p].ritualId
                        => (v \in versions <=> v \in versions')

C40_OtherRitualsUntouched == [][C40_FrameStep]_vars

C40_Witness ==
    \E p \in Procs :
        /\ call[p].op \in {"create", "duplicate"}
        /\ call[p].makeActive
        /\ pc[p] = "returned"
        /\ \E v \in versions :
            v.ritualId # call[p].ritualId /\ v.isActive

--------------------------------------------------------------------------
(***************************************************************************)
(* Properties of the resolution of the configuration.                      *)
(***************************************************************************)

\* the active versions of the default ritual in the store
ActiveDefault ==
    UNION {ActiveOf(r.id) : r \in RitualBySlug(DefaultRitualSlug)}

\* the configJson getActiveRitualConfig(defaultRitualSlug) resolves to
ActiveDefaultConfig ==
    (CHOOSE v \in ActiveDefault :
        \A w \in ActiveDefault : w.versionNumber <= v.versionNumber).configJson

\* C34: when the store is reachable and the default ritual has an active
\* version, the configuration a chat turn uses for its safety scan and its
\* prompt is the configJson of that active version, not the bundled default
\* (stated for a server that runs with NODE_ENV = "production", the only one
\* that consults the store).
C34_ConfigStep ==
    \A t \in Turns :
        (Scans(t) /\ env.production /\ ActiveDefault # {})
            => turn'[t].config = ActiveDefaultConfig

C34_TurnUsesActiveVersion == [][C34_ConfigStep]_vars

\* C35: a failure of the store while the active configuration is resolved
\* (ritual missing, no active version) never leaves the resolver as an
\* error, and the value of the resolver is then the bundled default.
C35_FailureDegrades ==
    /\ configLoad # "rejected"
    /\ ActiveDefault = {} => ConfigInUse = DefaultConfig

--------------------------------------------------------------------------
(***************************************************************************)
(* Properties of buildPromptForStep and getPresenceConfig.                 *)
(***************************************************************************)

\* C31: buildPrompt never throws on a step problem: for step = DONE it
\* returns the completion notice, for a step with no entry in config.steps
\* it returns an error notice naming that step, and it returns a generation
\* instruction only for a step that is not DONE and has an entry in
\* config.steps.
C31_StepProblemsGiveNotices ==
    \A i \in DOMAIN built :
        LET b == built[i]
            known == b.step \in ConfigData(b.config).steps
        IN /\ b.prompt.kind \in {"doneNotice", "unknownStep", "instruction"}
           /\ b.step = DONE => b.prompt.kind = "doneNotice"
           /\ (b.step # DONE /\ ~known)
                => (b.prompt.kind = "unknownStep" /\ b.prompt.step = b.step)
           /\ b.prompt.kind = "instruction" => (b.step # DONE /\ known)
           /\ (b.step # DONE /\ known)
                => /\ b.prompt.kind = "instruction"
                   /\ b.prompt.step = b.step
                   /\ b.prompt.userMessage = b.userMessage

C31_Witness ==
    /\ Len(built) = 2
    /\ built[1].step = DONE
    /\ built[1].prompt.kind = "doneNotice"
    /\ built[2].step = FLOW
    /\ built[2].config = "cfgA"
    /\ built[2].prompt.kind = "unknownStep"

\* two calls of buildPromptForStep with the same arguments
SameArguments(a, b) ==
    /\ a.step = b.step
    /\ a.session = b.session
    /\ a.userMessage = b.userMessage

\* C32: buildPrompt is deterministic: any two calls with identical step,
\* session state and userMessage return the identical instruction string,
\* at whatever times in the process lifetime the two calls are made.
C32_Deterministic ==
    (Len(built) = 2 /\ SameArguments(built[1], built[2]))
        => built[1].prompt = built[2].prompt

\* C33: the resolved configuration is cached for the process lifetime: after
\* getPresenceConfig has returned a value once, every later call in the
\* same process returns that same value.
C33_CachedForLifetime ==
    Len(built) = 2 => built[1].config = built[2].config

--------------------------------------------------------------------------
(***************************************************************************)
(* Properties of POST /api/admin/config.                                   *)
(***************************************************************************)

\* the body is an object with the three top-level keys
CompletePayload(body) ==
    body.json = "object" /\ AdminKeys \subseteq body.keys

\* the rows of the store after the step whose id the store did not have
Fresh == {v \in versions' : v.id \notin Ids(versions)}

\* C36: createConfigVersion through the admin interface rejects with a
\* validation error every payload that is not an object or lacks one of the
\* top-level keys steps, brandVoice, safety; a rejected or unauthorized
\* request creates no version and changes no isActive flag; an accepted
\* request creates exactly one new version, marked active.
C36_AdminStep ==
    \A p \in Procs :
        LET r == admin.req[p]
            r2 == admin'.req[p]
        IN /\ (r.pc = "body" /\ r2.pc # "body")
                => IF CompletePayload(r2.body)
                   THEN r2.pc = "creating"
                   ELSE r2.pc = "responded" /\ r2.status = 400
           /\ (r.pc \in {"idle", "body"} /\ r2.pc = "responded")
                => /\ r2.status \in {400, 401, 500}
                   /\ versions' = versions
                   /\ rituals' = rituals
                   /\ call'[p] = NoCall
           /\ (r.pc = "creating" /\ Steps(p))
                => IF pc[p] = "cv_create" /\ pc'[p] = "returned"
                   THEN /\ Cardinality(Fresh) = 1
                        /\ \A v \in Fresh :
                            /\ v.isActive
                            /\ v.configJson = r.body.config
                            /\ call'[p].out = {v}
                   ELSE Fresh = {}
           /\ (r.pc = "creating" /\ r2.pc = "responded" /\ r2.status = 200)
                => /\ pc[p] = "returned"
                   /\ call[p].out # {}
                   /\ \A v \in call[p].out : r2.versionId = v.id

=============================================================================
